---- MODULE Spec2Model ----
(***************************************************************************)
(* Model of two slices of copr:                                            *)
(*   - rpmbuild/copr_rpmbuild/providers/__init__.py : factory              *)
(*   - frontend/coprs_frontend/coprs/logic/complex_logic.py : ComplexLogic *)
(***************************************************************************)
EXTENDS Integers, FiniteSets, Sequences, TLC

(* ------------------------------ bounds -------------------------------- *)
MaxGroups == 2
MaxBuilds == 3

VARIABLES
    (* providers.factory *)
    f_arg,      \* the source_type of the last call
    f_res,      \* what the last call did: a return or a raise
    f_prev,     \* the call before it: [arg, res]
    (* persisted storage and the ambient session *)
    groups,     \* Group rows: [id, name, members]
    coprs,      \* Copr rows: [id, name, group_id]
    builds,     \* Build rows: [id, copr, status]
    users,      \* User rows, by name
    session,    \* flask.session: [has_teams, teams]
    (* the request running a read-only ComplexLogic operation *)
    r_op, r_pc, r_arg, r_counts, r_ret, r_log,
    (* the requests running ComplexLogic.delete_copr *)
    d_pc, d_copr, d_query, d_todo, d_done, d_failed, d_thrown, d_err, d_unsafe,
    next_id     \* the id the next created build gets

fvars == <<f_arg, f_res, f_prev>>
storage == <<groups, coprs, builds, users>>
rvars == <<r_op, r_pc, r_arg, r_counts, r_ret, r_log>>
dvars == <<d_pc, d_copr, d_query, d_todo, d_done, d_failed, d_thrown, d_err, d_unsafe, next_id>>
vars == <<fvars, storage, session, rvars, dvars>>

(* ====================================================================== *)
(* providers/__init__.py                                                  *)
(* ====================================================================== *)

\* The members of helpers.SourceType that the mapping names.
SourceTypes == {"link", "upload", "rubygems", "pypi", "scm", "custom"}

\* Values a caller can pass: a member, another hashable value, or an
\* unhashable one (a list, a dict), which a dict lookup cannot hash.
SourceTypeValues ==
    {[hashable |-> TRUE, key |-> k] : k \in SourceTypes \cup {"none", "srpm", "0"}}
    \cup {[hashable |-> FALSE, key |-> k] : k \in {"list", "dict"}}

NoResult == [kind |-> "none", value |-> "", exc |-> "", msg |-> <<>>]
Return(v) == [kind |-> "return", value |-> v, exc |-> "", msg |-> <<>>]
Raise(e, m) == [kind |-> "raise", value |-> "", exc |-> e, msg |-> m]

\* The dict literal of factory.
ProviderMap ==
    [k \in SourceTypes |->
        CASE k = "link" -> "SpecUrlProvider"
          [] k = "upload" -> "SpecUrlProvider"
          [] k = "rubygems" -> "RubyGemsProvider"
          [] k = "pypi" -> "PyPIProvider"
          [] k = "scm" -> "ScmProvider"
          [] k = "custom" -> "CustomProvider"]

\* dict.__getitem__: hashes the key first (TypeError when it cannot), then
\* looks it up (KeyError when absent).
DictGet(d, v) ==
    IF ~v.hashable THEN Raise("TypeError", <<"unhashable type">>)
    ELSE IF v.key \in DOMAIN d THEN Return(d[v.key])
    ELSE Raise("KeyError", <<v.key>>)

\* A factory that falls back to a default provider for an unknown type.
factory_default(source_type) ==
    LET got == DictGet(ProviderMap, source_type)
    IN  IF got.kind = "raise" THEN Return("SpecUrlProvider") ELSE got

\* A factory whose upload entry names another provider.
factory_upload(source_type) ==
    LET got == DictGet(ProviderMap, source_type)
    IN  IF got.kind = "raise" /\ got.exc = "KeyError"
        THEN Raise("RuntimeError", <<"No provider associated with this source type">>)
        ELSE IF got.kind = "return" /\ source_type.key = "upload"
        THEN Return("ScmProvider")
        ELSE got

factory(source_type) ==
    LET got == DictGet(ProviderMap, source_type)
    IN  IF got.kind = "raise" /\ got.exc = "KeyError"
        THEN Raise("RuntimeError", <<"No provider associated with this source type">>)
        ELSE got

FactoryCall(v) ==
    /\ f_prev' = [arg |-> f_arg, res |-> f_res]
    /\ f_arg' = v
    /\ f_res' = factory(v)
    /\ UNCHANGED <<storage, session, rvars, dvars>>

(* ====================================================================== *)
(* Storage collaborators of ComplexLogic                                  *)
(* ====================================================================== *)

GroupNames == {"g", "h"}
UserNames == {"u1"}
UserArgs == {"u1", "u2"}
StoredCoprNames == {"a"}
CoprArgs == {"a", "b"}
CoprIds == {1, 2}
Statuses == {"importing", "waiting", "running", "succeeded", "failed"}

GroupIds == 1..MaxGroups
BuildIds == 1..MaxBuilds

\* Tables with at most one row per id.
GroupTables ==
    {t \in SUBSET [id : GroupIds, name : GroupNames, members : SUBSET UserNames] :
        \A x, y \in t : x.id = y.id => x = y}
CoprTables ==
    {t \in SUBSET [id : CoprIds, name : StoredCoprNames, group_id : GroupIds] :
        \A x, y \in t : x.id = y.id => x = y}
BuildTables ==
    {t \in SUBSET [id : BuildIds, copr : {1}, status : Statuses] :
        \A x, y \in t : x.id = y.id => x = y}
Sessions ==
    {[has_teams |-> FALSE, teams |-> {}]}
    \cup {[has_teams |-> TRUE, teams |-> t] : t \in SUBSET GroupNames}

\* UsersLogic.get_group_by_alias(name): the groups of that name.
get_group_by_alias(name) == {g \in groups : g.name = name}

\* CoprsLogic.get_by_group_id(group_id, coprname): that group's projects of that name.
get_by_group_id(group_id, copr_name) ==
    {c \in coprs : c.group_id = group_id /\ c.name = copr_name}

\* UsersLogic.get_groups_by_names_list(names): the groups named in the list,
\* each with its members.
get_groups_by_names_list(names) == {g \in groups : g.name \in names}

\* BuildsLogic.get_build_task_queue(): the builds waiting for a worker.
get_build_task_queue == {b \in builds : b.status = "waiting"}

\* BuildsLogic.get_build_tasks(status): the builds in that status.
get_build_tasks(status) == {b \in builds : b.status = status}

\* BuildsLogic.get_multiple_by_copr(copr): the project's builds.
get_multiple_by_copr(copr) == {b \in builds : b.copr = copr}

\* sqlalchemy Query.one(): the single row, NoResultFound for none,
\* MultipleResultsFound for more than one.
One(rows) ==
    IF rows = {} THEN Raise("NoResultFound", <<>>)
    ELSE IF Cardinality(rows) > 1 THEN Raise("MultipleResultsFound", <<>>)
    ELSE Return(CHOOSE x \in rows : TRUE)

\* Query.count()
Count(rows) == Cardinality(rows)

(* ====================================================================== *)
(* complex_logic.py: the read-only operations                             *)
(* ====================================================================== *)

NoArg == [group_name |-> "", copr_name |-> "", user_name |-> ""]
NoCounts == [waiting |-> 0, running |-> 0]

\* A lookup that answers an arbitrary row when several match.
get_group_by_name_first(group_name) ==
    LET rows == get_group_by_alias(group_name)
    IN  [ret |-> IF rows = {}
                 THEN Raise("ObjectNotFound", <<"Group ", group_name, " does not exist.">>)
                 ELSE Return(CHOOSE x \in rows : TRUE),
         log |-> <<"get_group_by_alias">>]

get_group_by_name_safe(group_name) ==
    LET one == One(get_group_by_alias(group_name))
    IN  [ret |-> IF one.kind = "raise" /\ one.exc = "NoResultFound"
                 THEN Raise("ObjectNotFound", <<"Group ", group_name, " does not exist.">>)
                 ELSE one,
         log |-> <<"get_group_by_alias">>]

\* A project lookup that forgets the group scope.
get_group_copr_unscoped(group_name, copr_name) ==
    LET g == get_group_by_name_safe(group_name)
    IN  IF g.ret.kind = "raise" THEN g
        ELSE LET one == One({c \in coprs : c.name = copr_name})
             IN  [ret |-> IF one.kind = "raise" /\ one.exc = "NoResultFound"
                          THEN Raise("ObjectNotFound",
                                     <<"Project ", copr_name, " does not exist.">>)
                          ELSE one,
                  log |-> g.log \o <<"get_by_group_id">>]

get_group_copr_safe(group_name, copr_name) ==
    LET g == get_group_by_name_safe(group_name)
    IN  IF g.ret.kind = "raise" THEN g
        ELSE LET one == One(get_by_group_id(g.ret.value.id, copr_name))
             IN  [ret |-> IF one.kind = "raise" /\ one.exc = "NoResultFound"
                          THEN Raise("ObjectNotFound",
                                     <<"Project ", copr_name, " does not exist.">>)
                          ELSE one,
                  log |-> g.log \o <<"get_by_group_id">>]

\* A version that drops the filter on the user.
get_active_groups_unfiltered(user_name) ==
    IF session.has_teams
    THEN [ret |-> Return(get_groups_by_names_list(session.teams)),
          log |-> <<"get_groups_by_names_list">>]
    ELSE [ret |-> Return({}), log |-> <<>>]

get_active_groups_by_user(user_name) ==
    IF session.has_teams
    THEN [ret |-> Return({g \in get_groups_by_names_list(session.teams) :
                            user_name \in g.members}),
          log |-> <<"get_groups_by_names_list">>]
    ELSE [ret |-> Return({}), log |-> <<>>]

Finish(op, arg, out) ==
    /\ r_pc = "idle"
    /\ r_op' = op
    /\ r_arg' = arg
    /\ r_ret' = out.ret
    /\ r_log' = out.log
    /\ r_pc' = "done"
    /\ UNCHANGED r_counts

GetGroupByNameSafe(group_name) ==
    /\ Finish("get_group_by_name_safe", [NoArg EXCEPT !.group_name = group_name],
              get_group_by_name_safe(group_name))
    /\ UNCHANGED <<fvars, storage, session, dvars>>

GetGroupCoprSafe(group_name, copr_name) ==
    /\ Finish("get_group_copr_safe",
              [NoArg EXCEPT !.group_name = group_name, !.copr_name = copr_name],
              get_group_copr_safe(group_name, copr_name))
    /\ UNCHANGED <<fvars, storage, session, dvars>>

\* A version that stores an empty teams list in a session that has none.
GetActiveGroupsSetdefault(user_name) ==
    /\ Finish("get_active_groups_by_user", [NoArg EXCEPT !.user_name = user_name],
              get_active_groups_by_user(user_name))
    /\ session' = [session EXCEPT !.has_teams = TRUE]
    /\ UNCHANGED <<fvars, storage, dvars>>

GetActiveGroupsByUser(user_name) ==
    /\ Finish("get_active_groups_by_user", [NoArg EXCEPT !.user_name = user_name],
              get_active_groups_by_user(user_name))
    /\ UNCHANGED <<fvars, storage, session, dvars>>

\* get_queues_size, line 79: the first count.
\* A version whose waiting count is the number of all builds.
QueueSizeWaitingAll ==
    /\ r_pc = "idle"
    /\ r_op' = "get_queues_size"
    /\ r_arg' = NoArg
    /\ r_counts' = [NoCounts EXCEPT !.waiting = Count(builds)]
    /\ r_log' = <<"get_build_task_queue">>
    /\ r_pc' = "running"
    /\ UNCHANGED <<r_ret, fvars, storage, session, dvars>>

QueueSizeWaiting ==
    /\ r_pc = "idle"
    /\ r_op' = "get_queues_size"
    /\ r_arg' = NoArg
    /\ r_counts' = [NoCounts EXCEPT !.waiting = Count(get_build_task_queue)]
    /\ r_log' = <<"get_build_task_queue">>
    /\ r_pc' = "running"
    /\ UNCHANGED <<r_ret, fvars, storage, session, dvars>>

\* line 80: the second count.
QueueSizeRunning ==
    /\ r_pc = "running"
    /\ r_counts' = [r_counts EXCEPT !.running = Count(get_build_tasks("running"))]
    /\ r_log' = Append(r_log, "get_build_tasks")
    /\ r_pc' = "importing"
    /\ UNCHANGED <<r_op, r_arg, r_ret, fvars, storage, session, dvars>>

\* lines 81-86: the third count and the record returned.
QueueSizeImporting ==
    /\ r_pc = "importing"
    /\ r_ret' = Return([waiting |-> r_counts.waiting,
                        running |-> r_counts.running,
                        importing |-> Count(get_build_tasks("importing"))])
    /\ r_log' = Append(r_log, "get_build_tasks")
    /\ r_pc' = "done"
    /\ UNCHANGED <<r_op, r_arg, r_counts, fvars, storage, session, dvars>>

\* The request ends; the next one starts afresh.
ReadDone ==
    /\ r_pc = "done"
    /\ r_pc' = "idle"
    /\ r_op' = ""
    /\ r_arg' = NoArg
    /\ r_counts' = NoCounts
    /\ r_ret' = NoResult
    /\ r_log' = <<>>
    /\ UNCHANGED <<fvars, storage, session, dvars>>

\* The build lifecycle, driven by the dispatcher and the workers.
NextStatuses(s) ==
    CASE s = "importing" -> {"waiting", "failed"}
      [] s = "waiting" -> {"running"}
      [] s = "running" -> {"succeeded", "failed"}
      [] OTHER -> {}

\* Another request moves a build along its lifecycle.
BuildStatusChange(b, s) ==
    /\ b \in builds
    /\ s \in NextStatuses(b.status)
    /\ builds' = (builds \ {b}) \cup {[b EXCEPT !.status = s]}
    /\ UNCHANGED <<fvars, groups, coprs, users, session, rvars, dvars>>

(* ====================================================================== *)
(* complex_logic.py: delete_copr                                          *)
(* ====================================================================== *)

Requests == {"r1", "r2"}
DeleteErrors == {"ActionInProgressException", "InsufficientRightsException"}
DeleteOutcomes == {"ok"} \cup DeleteErrors

Ids(rows) == {x.id : x \in rows}

\* BuildsLogic.delete_build(user, build), when it does not raise: the row goes.
delete_build(b) == {x \in builds : x.id # b}

\* CoprsLogic.delete_unsafe(user, copr): the row goes.
delete_unsafe(c) == {x \in coprs : x.id # c}

\* lines 31-33: the query is built, and runs when the loop starts.
DeleteCoprQuery(r, c) ==
    /\ d_pc[r] = "idle"
    /\ c \in coprs
    /\ d_copr' = [d_copr EXCEPT ![r] = c.id]
    /\ d_query' = [d_query EXCEPT ![r] = Ids(get_multiple_by_copr(c.id))]
    /\ d_todo' = [d_todo EXCEPT ![r] = Ids(get_multiple_by_copr(c.id))]
    /\ d_pc' = [d_pc EXCEPT ![r] = "loop"]
    /\ UNCHANGED <<d_done, d_failed, d_thrown, d_err, d_unsafe, next_id>>
    /\ UNCHANGED <<fvars, storage, session, rvars>>

\* A loop that catches what delete_build raises and goes on.
DeleteCoprLoopSwallow(r, b, outcome) ==
    /\ d_pc[r] = "loop"
    /\ b \in d_todo[r]
    /\ builds' = IF outcome = "ok" THEN delete_build(b) ELSE builds
    /\ d_todo' = [d_todo EXCEPT ![r] = @ \ {b}]
    /\ d_done' = [d_done EXCEPT ![r] = IF outcome = "ok" THEN @ \cup {b} ELSE @]
    /\ d_thrown' = [d_thrown EXCEPT ![r] = IF outcome = "ok" THEN @ ELSE outcome]
    /\ UNCHANGED <<d_pc, d_failed, d_err>>
    /\ UNCHANGED <<d_copr, d_query, d_unsafe, next_id>>
    /\ UNCHANGED <<fvars, groups, coprs, users, session, rvars>>

\* lines 33-34: one iteration; what delete_build raises leaves delete_copr as it is.
DeleteCoprLoop(r, b, outcome) ==
    /\ d_pc[r] = "loop"
    /\ b \in d_todo[r]
    /\ IF outcome = "ok"
       THEN /\ builds' = delete_build(b)
            /\ d_todo' = [d_todo EXCEPT ![r] = @ \ {b}]
            /\ d_done' = [d_done EXCEPT ![r] = @ \cup {b}]
            /\ UNCHANGED <<d_pc, d_failed, d_thrown, d_err>>
       ELSE /\ d_failed' = [d_failed EXCEPT ![r] = {b}]
            /\ d_thrown' = [d_thrown EXCEPT ![r] = outcome]
            /\ d_err' = [d_err EXCEPT ![r] = outcome]
            /\ d_pc' = [d_pc EXCEPT ![r] = "raised"]
            /\ UNCHANGED <<builds, d_todo, d_done>>
    /\ UNCHANGED <<d_copr, d_query, d_unsafe, next_id>>
    /\ UNCHANGED <<fvars, groups, coprs, users, session, rvars>>

\* A version that deletes the project while builds are still to be deleted.
DeleteCoprUnsafeEarly(r) ==
    /\ d_pc[r] = "loop"
    /\ coprs' = delete_unsafe(d_copr[r])
    /\ d_unsafe' = [d_unsafe EXCEPT ![r] = @ + 1]
    /\ d_pc' = [d_pc EXCEPT ![r] = "returned"]
    /\ UNCHANGED <<d_copr, d_query, d_todo, d_done, d_failed, d_thrown, d_err, next_id>>
    /\ UNCHANGED <<fvars, groups, builds, users, session, rvars>>

\* line 36: the loop is over; the project goes.
DeleteCoprUnsafe(r) ==
    /\ d_pc[r] = "loop"
    /\ d_todo[r] = {}
    /\ coprs' = delete_unsafe(d_copr[r])
    /\ d_unsafe' = [d_unsafe EXCEPT ![r] = @ + 1]
    /\ d_pc' = [d_pc EXCEPT ![r] = "returned"]
    /\ UNCHANGED <<d_copr, d_query, d_todo, d_done, d_failed, d_thrown, d_err, next_id>>
    /\ UNCHANGED <<fvars, groups, builds, users, session, rvars>>

\* The request ends, having returned or raised.
DeleteDone(r) ==
    /\ d_pc[r] \in {"returned", "raised"}
    /\ d_pc' = [d_pc EXCEPT ![r] = "idle"]
    /\ d_copr' = [d_copr EXCEPT ![r] = 0]
    /\ d_query' = [d_query EXCEPT ![r] = {}]
    /\ d_todo' = [d_todo EXCEPT ![r] = {}]
    /\ d_done' = [d_done EXCEPT ![r] = {}]
    /\ d_failed' = [d_failed EXCEPT ![r] = {}]
    /\ d_thrown' = [d_thrown EXCEPT ![r] = ""]
    /\ d_err' = [d_err EXCEPT ![r] = ""]
    /\ d_unsafe' = [d_unsafe EXCEPT ![r] = 0]
    /\ UNCHANGED <<next_id, fvars, storage, session, rvars>>

\* Another request creates a build in a project that is there.
CreateBuild(c) ==
    /\ c \in coprs
    /\ next_id <= MaxBuilds
    /\ builds' = builds \cup {[id |-> next_id, copr |-> c.id, status |-> "waiting"]}
    /\ next_id' = next_id + 1
    /\ UNCHANGED <<d_pc, d_copr, d_query, d_todo, d_done, d_failed, d_thrown, d_err, d_unsafe>>
    /\ UNCHANGED <<fvars, groups, coprs, users, session, rvars>>

(* ------------------------- initial states ----------------------------- *)

FactoryIdle ==
    /\ f_arg = [hashable |-> TRUE, key |-> ""]
    /\ f_res = NoResult
    /\ f_prev = [arg |-> [hashable |-> TRUE, key |-> ""], res |-> NoResult]

ReadIdle ==
    /\ r_op = ""
    /\ r_pc = "idle"
    /\ r_arg = NoArg
    /\ r_counts = NoCounts
    /\ r_ret = NoResult
    /\ r_log = <<>>

DeleteIdle ==
    /\ d_pc = [r \in Requests |-> "idle"]
    /\ d_copr = [r \in Requests |-> 0]
    /\ d_query = [r \in Requests |-> {}]
    /\ d_todo = [r \in Requests |-> {}]
    /\ d_done = [r \in Requests |-> {}]
    /\ d_failed = [r \in Requests |-> {}]
    /\ d_thrown = [r \in Requests |-> ""]
    /\ d_err = [r \in Requests |-> ""]
    /\ d_unsafe = [r \in Requests |-> 0]
    /\ next_id = 1

\* Groups, projects and a session of every shape, with no builds; or builds
\* of every shape, with no groups.
Init ==
    /\ FactoryIdle /\ ReadIdle /\ DeleteIdle
    /\ users = UserNames
    /\ \/ /\ groups \in GroupTables
          /\ coprs \in CoprTables
          /\ session \in Sessions
          /\ builds = {}
       \/ /\ groups = {}
          /\ coprs = {}
          /\ session = [has_teams |-> FALSE, teams |-> {}]
          /\ builds \in BuildTables

Next ==
    \/ \E n \in GroupNames : GetGroupByNameSafe(n)
    \/ \E n \in GroupNames, c \in CoprArgs : GetGroupCoprSafe(n, c)
    \/ \E u \in UserArgs : GetActiveGroupsByUser(u)
    \/ QueueSizeWaiting
    \/ QueueSizeRunning
    \/ QueueSizeImporting
    \/ ReadDone
    \/ \E b \in builds, s \in Statuses : BuildStatusChange(b, s)

Spec == Init /\ [][Next]_vars

(* ----------------------------- factory -------------------------------- *)

InitFactory ==
    /\ FactoryIdle /\ ReadIdle /\ DeleteIdle
    /\ users = UserNames
    /\ groups = {} /\ coprs = {} /\ builds = {}
    /\ session = [has_teams |-> FALSE, teams |-> {}]

NextFactory == \E v \in SourceTypeValues : FactoryCall(v)

SpecFactory == InitFactory /\ [][NextFactory]_vars

(* ====================================================================== *)
(* Properties of factory (under SpecFactory)                              *)
(* ====================================================================== *)

FactoryCalled == f_res.kind # "none"
NoProviderMsg == <<"No provider associated with this source type">>

\* The mapping the specification fixes, written out.
ExpectedProvider(k) ==
    CASE k = "link" -> "SpecUrlProvider"
      [] k = "upload" -> "SpecUrlProvider"
      [] k = "rubygems" -> "RubyGemsProvider"
      [] k = "pypi" -> "PyPIProvider"
      [] k = "scm" -> "ScmProvider"
      [] k = "custom" -> "CustomProvider"

\* C3: for every member of the SourceType enumeration factory returns the
\* provider of the fixed mapping (a return, never a raise, never None);
\* link and upload get the same provider; two calls with the same
\* source_type get the same answer.
C3_FactoryMapping ==
    FactoryCalled =>
        /\ f_arg.key \in SourceTypes =>
              /\ f_res.kind = "return"
              /\ f_res.value = ExpectedProvider(f_arg.key)
              /\ f_res.value # "None"
        /\ ({f_arg.key, f_prev.arg.key} = {"link", "upload"}) => f_res = f_prev.res
        /\ (f_prev.res.kind # "none" /\ f_prev.arg = f_arg) => f_res = f_prev.res

C3_Witness ==
    /\ f_prev.arg.key = "link" /\ f_arg.key = "upload"
    /\ f_res.kind = "return" /\ f_res.value = "SpecUrlProvider"
    /\ f_prev.res = f_res

\* C4, as claimed: every value outside the enumeration makes factory raise
\* the "no provider" error (RuntimeError in the code).
C4_Original ==
    (FactoryCalled /\ f_arg.key \notin SourceTypes) =>
        f_res = Raise("RuntimeError", NoProviderMsg)

\* C4, amended: every hashable value outside the enumeration makes factory
\* raise RuntimeError("No provider associated with this source type"); an
\* unhashable value makes the lookup raise TypeError, which propagates; in
\* neither case is a provider returned.
C4_FactoryUnknown ==
    (FactoryCalled /\ f_arg.key \notin SourceTypes) =>
        /\ f_res.kind = "raise"
        /\ f_arg.hashable => f_res = Raise("RuntimeError", NoProviderMsg)
        /\ ~f_arg.hashable => f_res.exc = "TypeError"

C4_Witness ==
    /\ f_arg = [hashable |-> TRUE, key |-> "srpm"]
    /\ f_res = Raise("RuntimeError", NoProviderMsg)

(* ====================================================================== *)
(* Properties of the read-only operations (under Spec)                    *)
(* ====================================================================== *)

Finished(op) == r_pc = "done" /\ r_op = op
NotFoundNaming(ret, kind, name) ==
    /\ ret.kind = "raise"
    /\ ret.exc = "ObjectNotFound"
    /\ ret.msg = <<kind, name, " does not exist.">>
GroupMatches == {g \in groups : g.name = r_arg.group_name}
CoprMatches(g) == {c \in coprs : c.group_id = g.id /\ c.name = r_arg.copr_name}

C7_ActiveGroups ==
    Finished("get_active_groups_by_user") =>
        /\ r_ret.kind = "return"
        /\ ~session.has_teams => r_ret.value = {} /\ r_log = <<>>
        /\ session.has_teams =>
              r_ret.value = {g \in groups : /\ g.name \in session.teams
                                            /\ r_arg.user_name \in g.members}

\* Teams are present, some named group contains the user and another does not.
C7_Witness ==
    /\ Finished("get_active_groups_by_user")
    /\ session.has_teams
    /\ r_ret.value # {}
    /\ \E g \in groups : g.name \in session.teams /\ g \notin r_ret.value

CountIn(status) == Cardinality({b \in builds : b.status = status})

C8_Shape ==
    Finished("get_queues_size") =>
        /\ r_ret.kind = "return"
        /\ DOMAIN r_ret.value = {"waiting", "running", "importing"}
        /\ \A k \in DOMAIN r_ret.value : r_ret.value[k] \in Nat

C8_Step ==
    /\ (r_pc = "idle" /\ r_pc' = "running") =>
          r_counts'.waiting = CountIn("waiting")
    /\ (r_pc = "running" /\ r_pc' = "importing") =>
          /\ r_counts'.running = CountIn("running")
          /\ r_counts'.waiting = r_counts.waiting
    /\ (r_pc = "importing" /\ r_pc' = "done") =>
          r_ret'.value = [waiting |-> r_counts.waiting,
                          running |-> r_counts.running,
                          importing |-> CountIn("importing")]

\* C8: get_queues_size returns a record of exactly waiting, running and
\* importing, each a natural number: the number of builds in the waiting
\* queue, running and importing when that count's own query runs, the
\* earlier counts being kept as they were taken.
C8_QueueSizes == [](C8_Shape) /\ [][C8_Step]_vars

\* The record counts more builds than exist: a build was counted as
\* waiting and again as running, so the record is no snapshot of the table.
C8_Witness ==
    /\ Finished("get_queues_size")
    /\ r_ret.value.waiting + r_ret.value.running + r_ret.value.importing
          > Cardinality(builds)

\* C9: a step of a read-only operation leaves the groups, projects, builds,
\* users and the session as they were, whether it returns or raises.
C9_ReadOnly ==
    [][(r_pc # "done" /\ r_pc' # r_pc) =>
          UNCHANGED <<groups, coprs, builds, users, session>>]_vars

C9_Witness ==
    /\ Finished("get_group_copr_safe")
    /\ r_ret.exc = "ObjectNotFound"
    /\ groups # {} /\ coprs # {}

(* --------------------------- delete_copr ------------------------------ *)

InitDelete ==
    /\ FactoryIdle /\ ReadIdle /\ DeleteIdle
    /\ users = UserNames
    /\ groups = {}
    /\ coprs = {[id |-> i, name |-> "a", group_id |-> i] : i \in CoprIds}
    /\ builds = {}
    /\ session = [has_teams |-> FALSE, teams |-> {}]

\* Requests interleave at every storage call.
NextDelete ==
    \/ \E r \in Requests, c \in coprs : DeleteCoprQuery(r, c)
    \/ \E r \in Requests, b \in BuildIds, o \in DeleteOutcomes : DeleteCoprLoop(r, b, o)
    \/ \E r \in Requests : DeleteCoprUnsafe(r)
    \/ \E r \in Requests : DeleteDone(r)
    \/ \E c \in coprs : CreateBuild(c)

SpecDelete == InitDelete /\ [][NextDelete]_vars

Alone(r) == \A q \in Requests \ {r} : d_pc[q] = "idle"
NoneRunning == \A q \in Requests : d_pc[q] = "idle"

\* Each request runs to its end before another starts.
NextSeq ==
    \/ \E r \in Requests, c \in coprs : Alone(r) /\ DeleteCoprQuery(r, c)
    \/ \E r \in Requests, b \in BuildIds, o \in DeleteOutcomes : DeleteCoprLoop(r, b, o)
    \/ \E r \in Requests : DeleteCoprUnsafe(r)
    \/ \E r \in Requests : DeleteDone(r)
    \/ \E c \in coprs : NoneRunning /\ CreateBuild(c)

SpecSeq == InitDelete /\ [][NextSeq]_vars

(* ====================================================================== *)
(* Properties of delete_copr                                              *)
(* ====================================================================== *)

Persisted(c) == \E x \in coprs : x.id = c

C1_State ==
    \A r \in Requests :
        /\ d_unsafe[r] <= 1
        /\ d_unsafe[r] = 1 =>
              /\ d_pc[r] = "returned"
              /\ d_done[r] = d_query[r]
              /\ d_thrown[r] = ""

C1_Step ==
    \A r \in Requests :
        /\ d_unsafe'[r] > d_unsafe[r] =>
              /\ d_done[r] = d_query[r]
              /\ d_thrown[r] = ""
              /\ d_unsafe[r] = 0
        /\ (d_pc[r] = "idle" /\ d_pc'[r] = "loop") =>
              d_query'[r] = {b.id : b \in {x \in builds : x.copr = d_copr'[r]}}

\* C1 (under SpecDelete): a delete_copr call invokes the project deletion
\* at most once, and only when the build deletion has been invoked, and has
\* returned without raising, for every build its query returned.
C1_BuildsBeforeProject == [](C1_State) /\ [][C1_Step]_vars

\* The project is gone after two of its builds were deleted by the call.
C1_Witness ==
    \E r \in Requests :
        /\ d_unsafe[r] = 1
        /\ Cardinality(d_done[r]) >= 2
        /\ ~Persisted(d_copr[r])

C2_State ==
    \A r \in Requests :
        d_pc[r] = "raised" =>
            /\ d_err[r] \in DeleteErrors
            /\ d_err[r] = d_thrown[r]
            /\ d_unsafe[r] = 0
            /\ Persisted(d_copr[r])
            /\ Cardinality(d_failed[r]) = 1
            /\ d_failed[r] \subseteq Ids(builds)
            /\ d_query[r] \ d_done[r] \subseteq Ids(builds)
            /\ d_done[r] \cap Ids(builds) = {}

C2_Step ==
    \A r \in Requests :
        /\ (d_thrown'[r] # d_thrown[r] /\ d_thrown'[r] \in DeleteErrors) =>
              /\ d_pc'[r] = "raised"
              /\ UNCHANGED <<coprs, builds>>
        /\ d_pc[r] = "raised" =>
              /\ d_pc'[r] \in {"raised", "idle"}
              /\ coprs' = coprs
              /\ builds \subseteq builds'

\* C2 (under SpecSeq, requests one at a time): when delete_build raises
\* ActionInProgress or InsufficientRights for a build, delete_copr raises
\* that same error at once; the project deletion is not invoked; the
\* project, that build and the builds not yet processed are still
\* persisted; the builds deleted before stay deleted.
C2_AbortOnFailure == [](C2_State) /\ [][C2_Step]_vars

\* A build was deleted, the next one failed, a third is still to do.
C2_Witness ==
    \E r \in Requests :
        /\ d_pc[r] = "raised"
        /\ d_done[r] # {}
        /\ d_todo[r] \ d_failed[r] # {}

\* C10, as claimed (under SpecDelete): every persisted build belongs to a
\* persisted project.
C10_NoOrphanBuild == \A b \in builds : Persisted(b.copr)

====
